---- MODULE Spec2Model ----
(***************************************************************************)
(* State-machine model of src/server.js: the game-session / proof-token /   *)
(* top-3 leaderboard backend.  The three PostgreSQL tables are the state;   *)
(* every `await pool.query(...)` of a handler is one atomic step at the     *)
(* store, followed by the handler's synchronous code up to its next await.  *)
(* Transactions of updateTop3 run under PostgreSQL's default READ COMMITTED *)
(* isolation: a statement sees the committed rows plus the transaction's    *)
(* own uncommitted changes.                                                 *)
(***************************************************************************)
EXTENDS Integers, Sequences, FiniteSets

(* ------------------------------------------------------------------ *)
(* Bounds of the exploration                                           *)
(* ------------------------------------------------------------------ *)
MaxTicks == 2
MaxFaults == 1
MaxCalls == 4
MaxBoardCalls == 8

(* generateId: the session ids the exploration hands out, in this order *)
Ids == {1, 2}
Procs == {"p1", "p2"}
SeqProc == "p1"

(* A tick of the clock: one millisecond, or a long pause (just over the    *)
(* sweep's one-hour retention window).                                     *)
LongPause == 3601000
TickSteps == {1, LongPause}

(* ------------------------------------------------------------------ *)
(* JavaScript / SQL value conversions                                  *)
(* ------------------------------------------------------------------ *)
(* process.env values are strings; a decimal string is a sequence of digits *)
RECURSIVE ToNumber(_)
ToNumber(s) ==
    IF s = <<>> THEN 0 ELSE ToNumber(SubSeq(s, 1, Len(s) - 1)) * 10 + s[Len(s)]

RECURSIVE NumberToString(_)
NumberToString(n) ==
    IF n < 10 THEN <<n>> ELSE NumberToString(n \div 10) \o <<n % 10>>

(* number + string in JavaScript: the number is rendered and concatenated *)
JsAdd(n, s) == NumberToString(n) \o s

(* number < string, number > string: the string is converted to a number *)
JsLt(n, s) == n < ToNumber(s)
JsGt(n, s) == n > ToNumber(s)

(* GAME_CONFIG, each value as read from the environment *)
MIN_GAME_DURATION == <<1>>
MAX_GAME_DURATION == <<3>>
TOKEN_EXPIRY == <<1>>
MAX_SCORE == <<2>>
MIN_SCORE == <<0>>

MaxNameLen == 50
RetentionSecs == 3600
MsPerSec == 1000

(* hashToken: SHA-256, collision-free on the tokens in play *)
HashMod == 101
hashToken(token) == (token * 37 + 11) % HashMod

(* String.prototype.trim on a sequence of characters *)
RECURSIVE TrimLeft(_)
TrimLeft(s) == IF s # <<>> /\ Head(s) = " " THEN TrimLeft(Tail(s)) ELSE s

RECURSIVE TrimRight(_)
TrimRight(s) ==
    IF s # <<>> /\ s[Len(s)] = " " THEN TrimRight(SubSeq(s, 1, Len(s) - 1)) ELSE s

trim(s) == TrimRight(TrimLeft(s))

(* node-postgres returns a BIGINT column as a decimal string *)
BigintOut(v) == NumberToString(v)

(* number - string: the string is converted to a number *)
JsSub(n, s) == n - ToNumber(s)

(* a token no EndSession ever issues (a client's guess) *)
ForgedToken == HashMod - 1

(* EXTRACT(EPOCH FROM NOW())::BIGINT : seconds, rounded to nearest *)
EpochSecs(ms) == (ms + (MsPerSec \div 2)) \div MsPerSec

(* ------------------------------------------------------------------ *)
(* State                                                               *)
(* ------------------------------------------------------------------ *)
VARIABLES
    now,             \* Date.now(), milliseconds
    ticks,           \* clock ticks taken so far
    active_games,    \* table active_games: id -> [start_time, created_at]
    top_scores,      \* table top_scores, committed rows [id, username, score]
    top_scores_seq,  \* the SERIAL sequence of top_scores.id
    pending_tokens,  \* table pending_tokens: id -> [token_hash, score, game_duration, expires_at]
    nextGameId,      \* generateId: the next fresh id
    nextToken,       \* generateSecureToken: the next fresh token
    pc,              \* position of each in-flight request
    req,             \* the request body (and the time captured at the call)
    loc,             \* the handler's local variables
    resp,            \* the response sent
    tx,              \* the open transaction of updateTop3: uncommitted insert and deletes
    sweep,           \* cleanupExpiredData: position and captured time
    faults,          \* store calls that have failed so far
    calls,           \* requests received so far, where the exploration counts them
    hist             \* history of outcomes, for stating the properties

vars == <<now, ticks, active_games, top_scores, top_scores_seq, pending_tokens,
          nextGameId, nextToken, pc, req, loc, resp, tx, sweep, faults, calls, hist>>

NoName == <<>>
NoReq == [op |-> "none", gameId |-> 0, score |-> 0, scoreIsNumber |-> TRUE,
          username |-> NoName, token |-> 0, time |-> 0]
NoLoc == [found |-> FALSE, gameDuration |-> 0, isTop3 |-> FALSE, token |-> 0,
          expiresAt |-> <<>>, issuedAt |-> 0, score |-> 0, expires_at |-> 0,
          trim |-> {}, replay |-> FALSE, wrote |-> FALSE]
NoResp == [status |-> "none", case |-> "plain"]
NoTx == [ins |-> {}, del |-> {}]

(* Function update that may extend the domain *)
Put(f, k, v) == [x \in DOMAIN f \cup {k} |-> IF x = k THEN v ELSE f[x]]
Drop(f, k) == [x \in DOMAIN f \ {k} |-> f[x]]

(* Leaderboards the durable store may hold when the process starts *)
Row(i, u, s) == [id |-> i, username |-> u, score |-> s]
InitBoards ==
    { {},
      {Row(1, <<"Z">>, 2), Row(2, <<"Z">>, 0)},
      {Row(1, <<"Z">>, 2), Row(2, <<"Z">>, 2), Row(3, <<"Z">>, 0)} }

Init ==
    /\ now = 1
    /\ ticks = 0
    /\ active_games = [g \in {} |-> 0]
    /\ top_scores \in InitBoards
    /\ top_scores_seq = Cardinality(top_scores) + 1
    /\ pending_tokens = [g \in {} |-> 0]
    /\ nextGameId = 1
    /\ nextToken = 1
    /\ pc = [p \in Procs |-> "idle"]
    /\ req = [p \in Procs |-> NoReq]
    /\ loc = [p \in Procs |-> NoLoc]
    /\ resp = [p \in Procs |-> NoResp]
    /\ tx = [p \in Procs |-> NoTx]
    /\ sweep = [pc |-> "idle", now |-> 0]
    /\ faults = 0
    /\ calls = 0
    /\ hist = [effects |-> [g \in Ids |-> 0],
               proofs |-> [g \in Ids |-> 0],
               issued |-> [g \in {} |-> 0],
               inserts |-> [h \in {} |-> 0],
               expired |-> {},
               invalid |-> {},
               qualified |-> {},
               rolledback |-> {}]

(* ------------------------------------------------------------------ *)
(* Store operations                                                    *)
(* ------------------------------------------------------------------ *)
(* DELETE FROM active_games WHERE id = $1 *)
DeleteGameMutKeep(games, gameId) == games
DeleteGame(games, gameId) == Drop(games, gameId)

(* DELETE FROM pending_tokens WHERE id = $1 *)
DeleteTokenMutKeep(tokens, gameId) == tokens
DeleteToken(tokens, gameId) == Drop(tokens, gameId)

(* SELECT ... FROM pending_tokens WHERE id = $1 AND token_hash = $2 *)
SelectTokenMutIdOnly(tokens, gameId, tokenHash) == gameId \in DOMAIN tokens
SelectToken(tokens, gameId, tokenHash) ==
    gameId \in DOMAIN tokens /\ tokens[gameId].token_hash = tokenHash

(* ORDER BY score DESC LIMIT 3: every choice of 3 rows (all rows when there *)
(* are fewer) that no left-out row beats; ties are broken by the store      *)
Top3Sets(rows) ==
    IF Cardinality(rows) <= 3 THEN {rows}
    ELSE { S \in SUBSET rows :
             /\ Cardinality(S) = 3
             /\ \A r \in S : \A q \in rows \ S : r.score >= q.score }

(* the score of the last row of ORDER BY score DESC LIMIT 3 *)
LowestOf(rows) == CHOOSE s \in {r.score : r \in rows} : \A r \in rows : s <= r.score

(* isTop3Score(score), lines 119-131 *)
isTop3ScoreMutGe(rows, score) ==
    IF Cardinality(rows) < 3 THEN TRUE
    ELSE score >= LowestOf(CHOOSE S \in Top3Sets(rows) : TRUE)
isTop3Score(rows, score) ==
    IF Cardinality(rows) < 3 THEN TRUE
    ELSE score > LowestOf(CHOOSE S \in Top3Sets(rows) : TRUE)

(* ------------------------------------------------------------------ *)
(* The clock                                                           *)
(* ------------------------------------------------------------------ *)
Advance(d) ==
    /\ ticks < MaxTicks
    /\ now' = now + d
    /\ ticks' = ticks + 1
    /\ UNCHANGED <<active_games, top_scores, top_scores_seq, pending_tokens,
                   nextGameId, nextToken, pc, req, loc, resp, tx, sweep, faults, hist, calls>>

Tick == \E d \in TickSteps : Advance(d)

(* ------------------------------------------------------------------ *)
(* Requests                                                            *)
(* ------------------------------------------------------------------ *)
(* a request slot is free before its first request and after each response *)
Free(p) == pc[p] \in {"idle", "done"}

(* a request arrives: its body and the time of the call are recorded *)
Receive(p, body, label) ==
    /\ req' = [req EXCEPT ![p] = body]
    /\ resp' = [resp EXCEPT ![p] = NoResp]
    /\ pc' = [pc EXCEPT ![p] = label]

(* the handler goes on to its next await *)
Goto(p, label) ==
    /\ pc' = [pc EXCEPT ![p] = label]
    /\ UNCHANGED <<req, resp>>

(* what the answered request was, for stating the properties: a repeat of an  *)
(* EndSession that took effect, of a Register that found its proof expired,   *)
(* the retry of a Register whose transaction was rolled back, a Register with *)
(* the token of another pending proof, or with a wrong token                  *)
CaseOf(p) ==
    LET g == req[p].gameId
        t == req[p].token
    IN IF req[p].op = "end" /\ loc[p].replay THEN "replay"
       ELSE IF req[p].op # "register" THEN "plain"
       ELSE IF pc[p] = "reg_delete" /\ <<g, t>> \in hist.rolledback THEN "retry"
       ELSE IF loc[p].replay THEN "after_expired"
       ELSE IF g \notin DOMAIN pending_tokens THEN "plain"
       ELSE IF \E h \in DOMAIN pending_tokens \ {g} : hist.issued[h].token = t
            THEN "wrong_id"
       ELSE IF hist.issued[g].token # t THEN "wrong_token"
       ELSE "plain"

(* res.json(...) / res.status(...).json(...): the handler is over *)
Respond(p, r) ==
    /\ resp' = [resp EXCEPT ![p] = [r EXCEPT !.case = CaseOf(p)]]
    /\ pc' = [pc EXCEPT ![p] = "done"]
    /\ req' = [req EXCEPT ![p] = NoReq]
    /\ loc' = [loc EXCEPT ![p] = NoLoc]

Status(s) == [NoResp EXCEPT !.status = s]

(* lines 200-205 and 277-282: return res.status(400) before any query; what  *)
(* was rejected is noted with the response, for stating the properties       *)
Reject(p, case) ==
    /\ resp' = [resp EXCEPT ![p] = [status |-> "InvalidRequest", case |-> case]]
    /\ pc' = [pc EXCEPT ![p] = "done"]
    /\ req' = [req EXCEPT ![p] = NoReq]
    /\ loc' = [loc EXCEPT ![p] = NoLoc]

Hist(field, value) == [hist EXCEPT ![field] = value]
Bump(f, k) == Put(f, k, IF k \in DOMAIN f THEN f[k] + 1 ELSE 1)

(* ------------------------------------------------------------------ *)
(* POST /api/game/start, lines 171-191                                 *)
(* ------------------------------------------------------------------ *)
StartCall(p) ==
    /\ Free(p)
    /\ nextGameId \in Ids
    /\ Receive(p, [NoReq EXCEPT !.op = "start", !.gameId = nextGameId, !.time = now],
               "start_insert")
    /\ nextGameId' = nextGameId + 1
    /\ loc' = [loc EXCEPT ![p] = NoLoc]
    /\ UNCHANGED <<now, ticks, active_games, top_scores, top_scores_seq, pending_tokens,
                   nextToken, tx, sweep, faults, hist>>

StartInsert(p) ==
    /\ pc[p] = "start_insert"
    /\ active_games' = Put(active_games, req[p].gameId,
                           [start_time |-> req[p].time, created_at |-> EpochSecs(now)])
    /\ Respond(p, Status("Started"))
    /\ UNCHANGED <<now, ticks, top_scores, top_scores_seq, pending_tokens,
                   nextGameId, nextToken, tx, sweep, faults, hist, calls>>

(* ------------------------------------------------------------------ *)
(* POST /api/game/end, lines 194-269                                   *)
(* ------------------------------------------------------------------ *)
(* lines 199-205 *)
EndRequestValidMutNoMax(gameId, score, scoreIsNumber) ==
    /\ gameId # 0
    /\ scoreIsNumber
    /\ ~JsLt(score, MIN_SCORE)
EndRequestValid(gameId, score, scoreIsNumber) ==
    /\ gameId # 0
    /\ scoreIsNumber
    /\ ~(JsLt(score, MIN_SCORE) \/ JsGt(score, MAX_SCORE))

(* lines 221-222 *)
DurationInvalidMutMinOnly(gameDuration) == JsLt(gameDuration, MIN_GAME_DURATION)
DurationInvalid(gameDuration) ==
    JsLt(gameDuration, MIN_GAME_DURATION) \/ JsGt(gameDuration, MAX_GAME_DURATION)

(* request bodies: every valid one, and one of each kind the checks reject *)
EndBody(g, s, n) == [gameId |-> g, score |-> s, scoreIsNumber |-> n]
EndInputs ==
    {EndBody(g, s, TRUE) : g \in Ids, s \in ToNumber(MIN_SCORE)..ToNumber(MAX_SCORE)}
    \cup {EndBody(0, ToNumber(MIN_SCORE), TRUE), EndBody(1, 0, FALSE),
          EndBody(1, ToNumber(MIN_SCORE) - 1, TRUE), EndBody(1, ToNumber(MAX_SCORE) + 1, TRUE)}
ValidEndInputs == {b \in EndInputs : EndRequestValid(b.gameId, b.score, b.scoreIsNumber)}

EndCall(p, inputs) ==
    /\ Free(p)
    /\ \E b \in inputs :
         LET body == [NoReq EXCEPT !.op = "end", !.gameId = b.gameId, !.score = b.score,
                                   !.scoreIsNumber = b.scoreIsNumber, !.time = now]
         IN IF EndRequestValid(b.gameId, b.score, b.scoreIsNumber)
            THEN /\ Receive(p, body, "end_select")
                 /\ loc' = [loc EXCEPT ![p] = [NoLoc EXCEPT
                                !.replay = hist.effects[b.gameId] > 0]]
            ELSE Reject(p, IF b.scoreIsNumber /\ b.gameId \in DOMAIN active_games
                           THEN "end_range_active" ELSE "end")
    /\ UNCHANGED <<now, ticks, active_games, top_scores, top_scores_seq, pending_tokens,
                   nextGameId, nextToken, tx, sweep, faults, hist>>

(* lines 209-229: the lookup, and the duration check on its result *)
EndSelect(p) ==
    /\ pc[p] = "end_select"
    /\ IF req[p].gameId \notin DOMAIN active_games
       THEN Respond(p, Status("SessionNotFound"))
       ELSE LET gameDuration ==
                    JsSub(req[p].time, BigintOut(active_games[req[p].gameId].start_time))
            IN /\ loc' = [loc EXCEPT ![p].found = TRUE, ![p].gameDuration = gameDuration]
               /\ Goto(p, IF DurationInvalid(gameDuration)
                          THEN "end_delete_invalid" ELSE "end_top3")
    /\ UNCHANGED <<now, ticks, active_games, top_scores, top_scores_seq, pending_tokens,
                   nextGameId, nextToken, tx, sweep, faults, hist, calls>>

(* lines 224-228 *)
EndDeleteInvalid(p) ==
    /\ pc[p] = "end_delete_invalid"
    /\ active_games' = DeleteGame(active_games, req[p].gameId)
    /\ Respond(p, Status("InvalidDuration"))
    /\ hist' = [hist EXCEPT !.effects = Bump(hist.effects, req[p].gameId),
                            !.invalid = hist.invalid \cup {req[p].gameId}]
    /\ UNCHANGED <<now, ticks, top_scores, top_scores_seq, pending_tokens,
                   nextGameId, nextToken, tx, sweep, faults, calls>>

(* line 232: isTop3Score reads the committed leaderboard *)
EndTop3(p) ==
    /\ pc[p] = "end_top3"
    /\ loc' = [loc EXCEPT ![p].isTop3 = isTop3Score(top_scores, req[p].score)]
    /\ Goto(p, "end_delete")
    /\ UNCHANGED <<now, ticks, active_games, top_scores, top_scores_seq, pending_tokens,
                   nextGameId, nextToken, tx, sweep, faults, hist, calls>>

(* lines 239-251: delete the session; not top 3: answer; top 3: make the token *)
EndDelete(p) ==
    /\ pc[p] = "end_delete"
    /\ active_games' = DeleteGame(active_games, req[p].gameId)
    /\ IF ~loc[p].isTop3
       THEN /\ Respond(p, Status("NotQualified"))
            /\ hist' = Hist("effects", Bump(hist.effects, req[p].gameId))
            /\ UNCHANGED nextToken
       ELSE /\ loc' = [loc EXCEPT ![p].token = nextToken,
                                  ![p].expiresAt = JsAdd(now, TOKEN_EXPIRY),
                                  ![p].issuedAt = now,
                                  ![p].wrote = (req[p].gameId \in DOMAIN active_games)]
            /\ nextToken' = nextToken + 1
            /\ Goto(p, "end_insert")
            /\ UNCHANGED hist
    /\ UNCHANGED <<now, ticks, top_scores, top_scores_seq, pending_tokens,
                   nextGameId, tx, sweep, faults, calls>>

(* lines 253-263: INSERT INTO pending_tokens; id is the PRIMARY KEY (line 60) *)
EndInsert(p) ==
    /\ pc[p] = "end_insert"
    /\ IF req[p].gameId \in DOMAIN pending_tokens
       THEN /\ Respond(p, Status("StorageFailure"))
            /\ UNCHANGED <<pending_tokens, hist>>
       ELSE /\ pending_tokens' = Put(pending_tokens, req[p].gameId,
                    [token_hash |-> hashToken(loc[p].token),
                     score |-> req[p].score,
                     game_duration |-> loc[p].gameDuration,
                     expires_at |-> ToNumber(loc[p].expiresAt)])
            /\ Respond(p, Status("Qualified"))
            /\ hist' = [hist EXCEPT
                          !.effects = Bump(hist.effects, req[p].gameId),
                          !.proofs = Bump(hist.proofs, req[p].gameId),
                          !.issued = Put(hist.issued, req[p].gameId,
                                         [token |-> loc[p].token, at |-> loc[p].issuedAt]),
                          !.qualified = hist.qualified \cup {req[p].score}]
    /\ UNCHANGED <<now, ticks, active_games, top_scores, top_scores_seq,
                   nextGameId, nextToken, tx, sweep, faults, calls>>

(* ------------------------------------------------------------------ *)
(* POST /api/game/register-top3, lines 272-326                         *)
(* ------------------------------------------------------------------ *)
LongName == [i \in 1..(MaxNameLen + 1) |-> "x"]
GoodName == <<" ", "A", " ">>

(* lines 276-282 *)
RegisterRequestValid(gameId, username, token) ==
    /\ gameId # 0 /\ username # <<>> /\ token # 0
    /\ ~(Len(trim(username)) < 1 \/ Len(username) > MaxNameLen)

(* request bodies: a valid name with every id and every token issued so far or *)
(* forged, and one of each kind the checks reject                              *)
RegBody(g, u, t) == [gameId |-> g, username |-> u, token |-> t]
RegInputs ==
    {RegBody(g, GoodName, t) : g \in Ids, t \in (1..(nextToken - 1)) \cup {ForgedToken}}
    \cup {RegBody(0, GoodName, ForgedToken), RegBody(1, GoodName, 0),
          RegBody(1, <<>>, ForgedToken), RegBody(1, <<" ">>, ForgedToken),
          RegBody(1, LongName, ForgedToken)}
ValidRegInputs == {b \in RegInputs : RegisterRequestValid(b.gameId, b.username, b.token)}

RegCall(p, inputs) ==
    /\ Free(p)
    /\ \E b \in inputs :
         LET body == [NoReq EXCEPT !.op = "register", !.gameId = b.gameId,
                                   !.username = b.username, !.token = b.token, !.time = now]
         IN IF RegisterRequestValid(b.gameId, b.username, b.token)
            THEN /\ Receive(p, body, "reg_select")
                 /\ loc' = [loc EXCEPT ![p] = [NoLoc EXCEPT
                                !.replay = (<<b.gameId, b.token>> \in hist.expired)]]
            ELSE Reject(p, "plain")
    /\ UNCHANGED <<now, ticks, active_games, top_scores, top_scores_seq, pending_tokens,
                   nextGameId, nextToken, tx, sweep, faults, hist>>

(* lines 289-304: the lookup on (id, token_hash), and the expiry check *)
RegSelect(p) ==
    /\ pc[p] = "reg_select"
    /\ IF ~SelectToken(pending_tokens, req[p].gameId, hashToken(req[p].token))
       THEN Respond(p, Status("ProofNotFound"))
       ELSE LET tokenData == pending_tokens[req[p].gameId]
            IN /\ loc' = [loc EXCEPT ![p].found = TRUE,
                                     ![p].score = tokenData.score,
                                     ![p].expires_at = tokenData.expires_at]
               /\ Goto(p, IF JsGt(req[p].time, BigintOut(tokenData.expires_at))
                          THEN "reg_delete_expired" ELSE "tx_insert")
    /\ UNCHANGED <<now, ticks, active_games, top_scores, top_scores_seq, pending_tokens,
                   nextGameId, nextToken, tx, sweep, faults, hist, calls>>

(* lines 302-303 *)
RegDeleteExpired(p) ==
    /\ pc[p] = "reg_delete_expired"
    /\ pending_tokens' = DeleteToken(pending_tokens, req[p].gameId)
    /\ Respond(p, Status("ProofExpired"))
    /\ hist' = Hist("expired", hist.expired \cup {<<req[p].gameId, req[p].token>>})
    /\ UNCHANGED <<now, ticks, active_games, top_scores, top_scores_seq,
                   nextGameId, nextToken, tx, sweep, faults, calls>>

(* ------------------------------------------------------------------ *)
(* updateTop3(username, score), lines 138-163                          *)
(* ------------------------------------------------------------------ *)
(* the rows a statement of transaction p sees *)
Visible(p) == {r \in top_scores : r.id \notin tx[p].del} \cup tx[p].ins

(* lines 141-143: BEGIN; INSERT INTO top_scores. The sequence is not rolled back. *)
TxInsert(p) ==
    /\ pc[p] = "tx_insert"
    /\ tx' = [tx EXCEPT ![p].ins = {Row(top_scores_seq, trim(req[p].username), loc[p].score)}]
    /\ top_scores_seq' = top_scores_seq + 1
    /\ Goto(p, "tx_trim")
    /\ UNCHANGED <<now, ticks, active_games, top_scores, pending_tokens,
                   nextGameId, nextToken, loc, sweep, faults, hist, calls>>

(* the ids DELETE ... WHERE id NOT IN (SELECT id ... LIMIT 3) removes, for one *)
(* choice kept of the top 3                                                   *)
TrimTargets(rows, kept) == {r.id : r \in rows \ kept}

(* lines 146-153: the DELETE takes its snapshot and finds the rows to remove *)
TxTrim(p) ==
    /\ pc[p] = "tx_trim"
    /\ \E kept \in Top3Sets(Visible(p)) :
         loc' = [loc EXCEPT ![p].trim = TrimTargets(Visible(p), kept)]
    /\ Goto(p, "tx_trim_apply")
    /\ UNCHANGED <<now, ticks, active_games, top_scores, top_scores_seq, pending_tokens,
                   nextGameId, nextToken, tx, sweep, faults, hist, calls>>

(* the DELETE removes them: it waits for a row another open transaction has   *)
(* deleted, and skips a row that is gone once that transaction has committed  *)
TxTrimApply(p) ==
    /\ pc[p] = "tx_trim_apply"
    /\ \A q \in Procs \ {p} : tx[q].del \cap loc[p].trim = {}
    /\ tx' = [tx EXCEPT ![p].del = {r.id : r \in top_scores} \cap loc[p].trim,
                        ![p].ins = {r \in tx[p].ins : r.id \notin loc[p].trim}]
    /\ Goto(p, "tx_commit")
    /\ UNCHANGED <<now, ticks, active_games, top_scores, top_scores_seq, pending_tokens,
                   nextGameId, nextToken, loc, sweep, faults, hist, calls>>

(* line 155: COMMIT *)
TxCommit(p) ==
    /\ pc[p] = "tx_commit"
    /\ top_scores' = {r \in top_scores : r.id \notin tx[p].del} \cup tx[p].ins
    /\ tx' = [tx EXCEPT ![p] = NoTx]
    /\ hist' = IF tx[p].ins = {} THEN hist
               ELSE Hist("inserts", Bump(hist.inserts, hashToken(req[p].token)))
    /\ loc' = [loc EXCEPT ![p].wrote = (top_scores' # top_scores)]
    /\ Goto(p, "reg_delete")
    /\ UNCHANGED <<now, ticks, active_games, top_scores_seq, pending_tokens,
                   nextGameId, nextToken, sweep, faults, calls>>

(* lines 314-320 *)
RegDelete(p) ==
    /\ pc[p] = "reg_delete"
    /\ pending_tokens' = DeleteToken(pending_tokens, req[p].gameId)
    /\ Respond(p, Status("Registered"))
    /\ UNCHANGED <<now, ticks, active_games, top_scores, top_scores_seq,
                   nextGameId, nextToken, tx, sweep, faults, hist, calls>>

(* ------------------------------------------------------------------ *)
(* cleanupExpiredData, lines 92-104, run by setInterval (line 166)     *)
(* ------------------------------------------------------------------ *)
TokenExpired(row, t) == row.expires_at < t
GameStaleMutNever(row, t) == FALSE
GameStale(row, t) == row.created_at < (t \div MsPerSec) - RetentionSecs

(* DELETE FROM pending_tokens WHERE expires_at < $1 *)
DeleteExpiredTokens(tokens, t) ==
    [g \in {k \in DOMAIN tokens : ~TokenExpired(tokens[k], t)} |-> tokens[g]]

(* DELETE FROM active_games WHERE created_at < $1 *)
DeleteStaleGames(games, t) ==
    [g \in {k \in DOMAIN games : ~GameStale(games[k], t)} |-> games[g]]

(* lines 93-97. A run of the sweep that finds no row to delete changes nothing *)
(* and is left out: rows that arrive after `now` was read are never stale.     *)
SweepTokens ==
    /\ sweep.pc = "idle"
    /\ \/ \E g \in DOMAIN pending_tokens : TokenExpired(pending_tokens[g], now)
       \/ \E g \in DOMAIN active_games : GameStale(active_games[g], now)
    /\ pending_tokens' = DeleteExpiredTokens(pending_tokens, now)
    /\ sweep' = [pc |-> "games", now |-> now]
    /\ UNCHANGED <<now, ticks, active_games, top_scores, top_scores_seq,
                   nextGameId, nextToken, pc, req, loc, resp, tx, faults, hist, calls>>

(* line 100 *)
SweepGames ==
    /\ sweep.pc = "games"
    /\ active_games' = DeleteStaleGames(active_games, sweep.now)
    /\ sweep' = [pc |-> "idle", now |-> 0]
    /\ UNCHANGED <<now, ticks, top_scores, top_scores_seq, pending_tokens,
                   nextGameId, nextToken, pc, req, loc, resp, tx, faults, hist, calls>>

(* ------------------------------------------------------------------ *)
(* Store failures: a query throws                                      *)
(* ------------------------------------------------------------------ *)
StoreSteps == {"start_insert", "end_select", "end_delete_invalid", "end_top3",
               "end_delete", "end_insert", "reg_select", "reg_delete_expired",
               "tx_insert", "tx_trim", "tx_trim_apply", "tx_commit", "reg_delete"}

(* the statements of updateTop3 before its COMMIT: INSERT and trimming DELETE *)
RollbackSteps == {"tx_insert", "tx_trim", "tx_trim_apply"}

(* the catch blocks of lines 132, 157-159, 187, 265 and 322: an open           *)
(* transaction is rolled back and the request answers 500                     *)
StoreFailureMutNoRollback(p) ==
    /\ pc[p] \in StoreSteps
    /\ faults < MaxFaults
    /\ faults' = faults + 1
    /\ top_scores' = top_scores \cup tx[p].ins
    /\ tx' = [tx EXCEPT ![p] = NoTx]
    /\ Respond(p, Status("StorageFailure"))
    /\ hist' = IF pc[p] \in RollbackSteps
               THEN Hist("rolledback",
                         hist.rolledback \cup {<<req[p].gameId, req[p].token>>})
               ELSE hist
    /\ UNCHANGED <<now, ticks, active_games, top_scores_seq, pending_tokens,
                   nextGameId, nextToken, sweep, calls>>
StoreFailure(p) ==
    /\ pc[p] \in StoreSteps
    /\ faults < MaxFaults
    /\ faults' = faults + 1
    /\ tx' = [tx EXCEPT ![p] = NoTx]
    /\ Respond(p, Status("StorageFailure"))
    /\ hist' = IF pc[p] \in RollbackSteps
               THEN Hist("rolledback",
                         hist.rolledback \cup {<<req[p].gameId, req[p].token>>})
               ELSE hist
    /\ UNCHANGED <<now, ticks, active_games, top_scores, top_scores_seq, pending_tokens,
                   nextGameId, nextToken, sweep, calls>>

(* lines 101-103: the sweep logs the error and gives up *)
SweepFailure ==
    /\ sweep.pc = "games"
    /\ faults < MaxFaults
    /\ faults' = faults + 1
    /\ sweep' = [pc |-> "idle", now |-> 0]
    /\ UNCHANGED <<now, ticks, active_games, top_scores, top_scores_seq, pending_tokens,
                   nextGameId, nextToken, pc, req, loc, resp, tx, hist, calls>>

(* ------------------------------------------------------------------ *)
(* Specifications                                                      *)
(* ------------------------------------------------------------------ *)
(* a request arrives at slot p *)
Call(p, endInputs, regInputs) ==
    StartCall(p) \/ EndCall(p, endInputs) \/ RegCall(p, regInputs)

(* the steps of a request after its call *)
Step(p) ==
    \/ StartInsert(p)
    \/ EndSelect(p) \/ EndDeleteInvalid(p) \/ EndTop3(p) \/ EndDelete(p) \/ EndInsert(p)
    \/ RegSelect(p) \/ RegDeleteExpired(p)
    \/ TxInsert(p) \/ TxTrim(p) \/ TxTrimApply(p) \/ TxCommit(p) \/ RegDelete(p)

Background == Tick \/ SweepTokens \/ SweepGames

(* concurrent requests that pass validation; the store never fails *)
Next ==
    \/ \E p \in Procs :
         \/ calls < MaxCalls /\ calls' = calls + 1 /\ Call(p, ValidEndInputs, ValidRegInputs)
         \/ Step(p)
    \/ Background
Spec == Init /\ [][Next]_vars

(* one request at a time, any request body; the store never fails *)
SeqNext ==
    \/ calls' = calls /\ Call(SeqProc, EndInputs, RegInputs)
    \/ Step(SeqProc)
    \/ Background
SeqSpec == Init /\ [][SeqNext]_vars

(* one request at a time, requests that pass validation and so reach the   *)
(* store; store calls may fail                                             *)
FaultNext ==
    \/ calls' = calls /\ Call(SeqProc, ValidEndInputs, ValidRegInputs)
    \/ Step(SeqProc)
    \/ StoreFailure(SeqProc)
    \/ Background
    \/ SweepFailure
FaultSpec == Init /\ [][FaultNext]_vars

(* the first instants at which the sweep would delete the rows now stored:   *)
(* a proof once expires_at < now, a session once its created_at is more than *)
(* the retention window behind the second of now                             *)
DueTimes ==
    {pending_tokens[g].expires_at + 1 : g \in DOMAIN pending_tokens}
    \cup {(active_games[g].created_at + RetentionSecs + 1) * MsPerSec :
             g \in DOMAIN active_games}
LastOf(S) == CHOOSE m \in S : \A x \in S : x <= m

(* time goes on for as long as a stored row takes to come due; this passage  *)
(* of time is not counted in ticks                                           *)
Elapse ==
    /\ \E t \in DueTimes : t > now
    /\ now' = LastOf(DueTimes)
    /\ UNCHANGED <<ticks, active_games, top_scores, top_scores_seq, pending_tokens,
                   nextGameId, nextToken, pc, req, loc, resp, tx, sweep, faults, hist, calls>>

(* the EndSession bodies with the highest score *)
TopEndInputs == {b \in ValidEndInputs : b.score = ToNumber(MAX_SCORE)}

(* one request at a time, requests that pass validation, the store never    *)
(* fails, the leaderboard starts empty; time keeps advancing, a millisecond *)
(* or up to the next due time, and setInterval keeps running the sweep,     *)
(* each of whose statements completes                                       *)
LiveNext ==
    \/ calls' = calls /\ Call(SeqProc, TopEndInputs, ValidRegInputs)
    \/ Step(SeqProc)
    \/ Advance(1) \/ Elapse
    \/ SweepTokens \/ SweepGames
LiveInit == Init /\ top_scores = {}
LiveSpec ==
    /\ LiveInit /\ [][LiveNext]_vars
    /\ WF_vars(Elapse) /\ WF_vars(SweepTokens) /\ WF_vars(SweepGames)

(* the Register bodies of clients that present the token they were given *)
OwnRegInputs ==
    {b \in ValidRegInputs :
        b.gameId \in DOMAIN hist.issued /\ hist.issued[b.gameId].token = b.token}

(* Start and End requests arrive one at a time; Register requests overlap *)
BoardCall(p) ==
    \/ /\ \A q \in Procs \ {p} : Free(q)
       /\ StartCall(p) \/ EndCall(p, TopEndInputs)
    \/ /\ \A q \in Procs \ {p} : req[q].op \notin {"start", "end"}
       /\ RegCall(p, OwnRegInputs)

(* longer runs on a full leaderboard: top scores only, the store never fails, *)
(* no sweep                                                                   *)
BoardInit == Init /\ Cardinality(top_scores) = 3
BoardNext ==
    \/ \E p \in Procs :
         \/ calls < MaxBoardCalls /\ calls' = calls + 1 /\ BoardCall(p)
         \/ Step(p)
    \/ Tick
BoardSpec == BoardInit /\ [][BoardNext]_vars

(* ------------------------------------------------------------------ *)
(* Properties                                                          *)
(* ------------------------------------------------------------------ *)
(* request p is answered by this step *)
Answered(p) == pc[p] # "done" /\ pc'[p] = "done"
Answer(p) == resp'[p].status

(* C1: in a sequential history, an EndSession with a valid score for an id     *)
(* whose earlier EndSession completed with an effect (InvalidDuration,         *)
(* qualifies:false or qualifies:true) returns SessionNotFound.                 *)
C1_ReplayedEndNotFound ==
    [][\A p \in Procs :
         (req[p].op = "end" /\ loc[p].replay /\ Answered(p))
         => Answer(p) = "SessionNotFound"]_vars

C1_Witness ==
    \E p \in Procs : resp[p] = [status |-> "SessionNotFound", case |-> "replay"]

(* C2: a session id never produces two outcomes among InvalidDuration,         *)
(* qualifies:false and qualifies:true, whatever the interleaving of the        *)
(* EndSession requests that carry it.                                          *)
C2_OneOutcomePerSession == \A g \in Ids : hist.effects[g] <= 1

(* C3: the leaderboard holds at most 3 committed rows, also when               *)
(* RegisterTopScore transactions run concurrently.                             *)
C3_AtMostThreeRows == Cardinality(top_scores) <= 3

(* C4: at most one leaderboard entry is ever inserted on behalf of a pending   *)
(* proof, also when two Register requests with its id and token overlap.       *)
C4_OneEntryPerProof == \A h \in DOMAIN hist.inserts : hist.inserts[h] <= 1

(* C5: at most one PendingProof row is ever created for a session id.          *)
C5_OneProofPerSession == \A g \in Ids : hist.proofs[g] <= 1

(* C6: an EndSession that found its session and a duration inside the bounds   *)
(* answers qualifies:true or qualifies:false, and qualifies:true exactly when  *)
(* fewer than 3 leaderboard rows have a score at least the submitted one       *)
(* (fewer than 3 entries, or strictly above the 3rd-highest score).            *)
C6_QualifiesIffBeatsThird ==
    [][\A p \in Procs :
         (req[p].op = "end" /\ loc[p].found /\ Answered(p)
          /\ ToNumber(MIN_GAME_DURATION) <= loc[p].gameDuration
          /\ loc[p].gameDuration <= ToNumber(MAX_GAME_DURATION))
         => /\ Answer(p) \in {"Qualified", "NotQualified"}
            /\ Answer(p) = "Qualified"
                 <=> Cardinality({r \in top_scores : r.score >= req[p].score}) < 3]_vars

(* a score equal to the 3rd-place score of a full leaderboard was turned down *)
C6_Witness ==
    \E p \in Procs :
        /\ pc[p] = "end_delete" /\ ~loc[p].isTop3
        /\ Cardinality(top_scores) = 3
        /\ \E r \in top_scores :
             /\ r.score = req[p].score
             /\ \A q \in top_scores : q.score >= r.score

(* the name as stored: without the surrounding blanks *)
Stored(username) == SelectSeq(username, LAMBDA c : c # " ")

(* C7: right after RegisterTopScore answers success, the PendingProof row of   *)
(* the session is gone and the leaderboard has an entry with the trimmed       *)
(* username and the proof's score.                                             *)
C7_RegisteredEntryPresent ==
    [][\A p \in Procs :
         (req[p].op = "register" /\ Answered(p) /\ Answer(p) = "Registered")
         => /\ req[p].gameId \notin DOMAIN pending_tokens'
            /\ \E r \in top_scores' :
                 r.username = Stored(req[p].username) /\ r.score = loc[p].score]_vars

(* the pair (id, token) of the request is the one of a stored proof *)
RightPair(p) ==
    /\ req[p].gameId \in DOMAIN pending_tokens
    /\ hist.issued[req[p].gameId].token = req[p].token

(* C8: a Register whose (id, token) is not the pair of a stored proof answers  *)
(* ProofNotFound and changes neither the pending proofs nor the leaderboard;   *)
(* the right pair is found.                                                    *)
C8_WrongPairNotFound ==
    [][\A p \in Procs :
         pc[p] = "reg_select" /\ pc'[p] # "reg_select"
         => IF RightPair(p)
            THEN pc'[p] \in {"tx_insert", "reg_delete_expired"}
            ELSE /\ Answer(p) = "ProofNotFound"
                 /\ pending_tokens' = pending_tokens
                 /\ top_scores' = top_scores]_vars

(* the token of one pending proof was presented with the id of another *)
C8_Witness ==
    \E p \in Procs : resp[p] = [status |-> "ProofNotFound", case |-> "wrong_id"]

(* C9: a Register with the right pair made after expiresAt answers             *)
(* ProofExpired, deletes the proof and inserts nothing; a later Register with  *)
(* that id and token answers ProofNotFound and inserts nothing.                *)
C9_ExpiredProofConsumed ==
    [][\A p \in Procs :
         /\ (pc[p] = "reg_select" /\ pc'[p] # "reg_select" /\ RightPair(p)
             /\ req[p].time > pending_tokens[req[p].gameId].expires_at)
            => pc'[p] = "reg_delete_expired" /\ tx' = tx
         /\ (pc[p] = "reg_delete_expired" /\ pc'[p] # "reg_delete_expired")
            => /\ Answer(p) = "ProofExpired"
               /\ req[p].gameId \notin DOMAIN pending_tokens'
               /\ top_scores' = top_scores /\ tx' = tx
         /\ (req[p].op = "register" /\ loc[p].replay /\ pc'[p] # pc[p])
            => /\ Answer(p) = "ProofNotFound"
               /\ top_scores' = top_scores /\ tx' = tx]_vars

C9_Witness ==
    \E p \in Procs : resp[p] = [status |-> "ProofNotFound", case |-> "after_expired"]

(* C10: the expiresAt stored with a proof is the time of its issue plus        *)
(* TOKEN_EXPIRY, as a number.                                                  *)
C10_ExpiryIsIssuePlusTokenExpiry ==
    \A g \in DOMAIN pending_tokens :
        pending_tokens[g].expires_at = hist.issued[g].at + ToNumber(TOKEN_EXPIRY)

(* the three stores are left as they are by this step *)
StoresUnchanged ==
    /\ active_games' = active_games
    /\ pending_tokens' = pending_tokens
    /\ top_scores' = top_scores

(* C11: an EndSession on an Active session whose duration (time of the call   *)
(* minus startedAt) is below MIN_GAME_DURATION or above MAX_GAME_DURATION     *)
(* answers InvalidDuration, removes the session row, creates no PendingProof  *)
(* and changes no leaderboard row; a later EndSession with that id answers    *)
(* SessionNotFound.                                                           *)
C11_InvalidDurationConsumes ==
    [][\A p \in Procs :
         /\ (/\ pc[p] = "end_select" /\ pc'[p] # "end_select"
             /\ req[p].gameId \in DOMAIN active_games
             /\ LET d == req[p].time - active_games[req[p].gameId].start_time
                IN d < ToNumber(MIN_GAME_DURATION) \/ d > ToNumber(MAX_GAME_DURATION))
            => pc'[p] = "end_delete_invalid" /\ StoresUnchanged
         /\ (pc[p] = "end_delete_invalid" /\ pc'[p] # "end_delete_invalid")
            => /\ Answer(p) = "InvalidDuration"
               /\ req[p].gameId \notin DOMAIN active_games'
               /\ pending_tokens' = pending_tokens
               /\ top_scores' = top_scores /\ tx' = tx
         /\ (req[p].op = "end" /\ req[p].gameId \in hist.invalid /\ Answered(p))
            => Answer(p) = "SessionNotFound" /\ StoresUnchanged]_vars

(* an EndSession was repeated for an id whose only outcome was InvalidDuration *)
C11_Witness ==
    /\ hist.invalid # {}
    /\ \A g \in Ids : hist.effects[g] > 0 => g \in hist.invalid
    /\ \E p \in Procs : resp[p] = [status |-> "SessionNotFound", case |-> "replay"]

(* C12: whenever EndSession or RegisterTopScore answers StorageFailure because *)
(* one of its store calls failed, no step of the request has changed a store: *)
(* the session is not consumed without a proof being stored, and no           *)
(* leaderboard entry is inserted while the proof stays usable.                *)
C12_FailureLeavesStores ==
    [][\A p \in Procs :
         (req[p].op \in {"end", "register"} /\ Answered(p)
          /\ Answer(p) = "StorageFailure")
         => ~loc[p].wrote /\ StoresUnchanged]_vars

(* C13: if the insert or the trim inside the leaderboard update transaction   *)
(* fails, the update is rolled back: nothing of the transaction is committed, *)
(* so the leaderboard is as the Register found it, Register answers           *)
(* StorageFailure, and the PendingProof row is left in place for a retry.     *)
C13_TxFailureRollsBack ==
    [][\A p \in Procs :
         /\ (pc[p] \in {"reg_select"} \cup RollbackSteps /\ pc'[p] # pc[p])
            => top_scores' = top_scores /\ pending_tokens' = pending_tokens
         /\ (pc[p] \in RollbackSteps /\ Answered(p))
            => /\ Answer(p) = "StorageFailure"
               /\ tx'[p] = NoTx
               /\ top_scores' = top_scores
               /\ pending_tokens' = pending_tokens]_vars

(* the retry of a Register whose transaction was rolled back has succeeded *)
C13_Witness ==
    \E p \in Procs : resp[p] = [status |-> "Registered", case |-> "retry"]

(* a request arrives at slot p in this step *)
Called(p) ==
    /\ Free(p)
    /\ pc'[p] # pc[p] \/ req'[p] # req[p] \/ resp'[p] # resp[p]

(* an EndSession body without id or score, or with a score outside the range *)
BadEndBody(r) ==
    \/ r.gameId = 0
    \/ ~r.scoreIsNumber
    \/ r.score < ToNumber(MIN_SCORE)
    \/ r.score > ToNumber(MAX_SCORE)

(* C15: an EndSession whose score is outside [MIN_SCORE, MAX_SCORE], or whose *)
(* id or score is missing, answers InvalidRequest at once, without a store    *)
(* access, whether or not its id names an Active session, and leaves the      *)
(* three stores unchanged, so that the session stays Active for a later       *)
(* EndSession: no such body gets past the call, every request is either let   *)
(* through or answered InvalidRequest by the call itself, and an EndSession   *)
(* so answered has changed nothing.                                           *)
C15_BadScoreRejected ==
    [][\A p \in Procs :
         Called(p)
         => /\ req'[p].op = "end" => ~BadEndBody(req'[p])
            /\ req'[p].op = "none"
                 => pc'[p] = "done" /\ resp'[p].status = "InvalidRequest"
            /\ resp'[p].case \in {"end", "end_range_active"}
                 => /\ resp'[p].status = "InvalidRequest"
                    /\ StoresUnchanged
                    /\ tx' = tx /\ hist' = hist /\ sweep' = sweep]_vars

(* a number outside the score range was rejected for the id of an Active      *)
(* session                                                                    *)
C15_Witness ==
    \E p \in Procs :
        /\ resp[p] = [status |-> "InvalidRequest", case |-> "end_range_active"]
        /\ 1 \in DOMAIN active_games

(* C16: every EndSession that finds an Active session with a duration inside  *)
(* the bounds has removed the session row when it returns, whatever the       *)
(* answer: also when the leaderboard eligibility lookup fails and the answer  *)
(* is StorageFailure.                                                         *)
C16_SessionAlwaysConsumed ==
    [][\A p \in Procs :
         (/\ req[p].op = "end" /\ loc[p].found /\ Answered(p)
          /\ ToNumber(MIN_GAME_DURATION) <= loc[p].gameDuration
          /\ loc[p].gameDuration <= ToNumber(MAX_GAME_DURATION))
         => req[p].gameId \notin DOMAIN active_games']_vars

(* C17: with time advancing and the periodic sweep weakly fair, every Session *)
(* row and every PendingProof row is eventually deleted, whether or not an    *)
(* EndSession or a Register is ever issued for it.                            *)
C17_RowsEventuallyDeleted ==
    \A g \in Ids :
        /\ (g \in DOMAIN active_games) ~> (g \notin DOMAIN active_games)
        /\ (g \in DOMAIN pending_tokens) ~> (g \notin DOMAIN pending_tokens)

(* no request names id g *)
Unclaimed(g) == \A p \in Procs : req[p].gameId # g

(* the sweep has deleted a session no EndSession took effect on, and a proof  *)
(* no Register consumed                                                       *)
C17_Witness ==
    /\ \E g \in Ids :
         /\ g < nextGameId /\ Unclaimed(g)
         /\ g \notin DOMAIN active_games /\ hist.effects[g] = 0
    /\ \E g \in Ids :
         /\ hist.proofs[g] = 1 /\ Unclaimed(g)
         /\ g \notin DOMAIN pending_tokens
         /\ hist.expired = {} /\ DOMAIN hist.inserts = {}

(* the session row of id g has been inserted and deleted: the id was issued,  *)
(* no Start still holds it, and the row is not stored                         *)
Consumed(g) ==
    /\ g < nextGameId
    /\ g \notin DOMAIN active_games
    /\ \A p \in Procs : ~(pc[p] = "start_insert" /\ req[p].gameId = g)

(* C18: no session id is in the Session Store and in the Pending-Proof Store  *)
(* at once: a PendingProof row is inserted only for an id whose session row   *)
(* has been deleted, and the session row of such an id is never inserted      *)
(* again.                                                                     *)
C18_SessionXorProof ==
    /\ [](DOMAIN active_games \cap DOMAIN pending_tokens = {})
    /\ [][\A g \in Ids :
            /\ (g \in DOMAIN pending_tokens' /\ g \notin DOMAIN pending_tokens)
               => Consumed(g)
            /\ Consumed(g) => g \notin DOMAIN active_games']_vars

(* a proof is stored for a consumed id while another session is Active *)
C18_Witness ==
    /\ \E g \in DOMAIN pending_tokens : Consumed(g)
    /\ active_games # [g \in {} |-> 0]

(* the rows the leaderboard may hold before the first request *)
InitialRows == UNION InitBoards

RECURSIVE SumOf(_)
SumOf(f) ==
    IF DOMAIN f = {} THEN 0
    ELSE LET k == CHOOSE x \in DOMAIN f : TRUE
         IN f[k] + SumOf(Drop(f, k))

(* C19: no score reaches the leaderboard without a validated session: the     *)
(* score of each entry added is one submitted to an EndSession that found a   *)
(* started session, passed the duration and score checks and answered         *)
(* qualifies:true, and the leaderboard inserts are never more than those      *)
(* EndSession calls.                                                          *)
C19_EntriesComeFromQualifiedEnds ==
    /\ \A r \in top_scores : r \in InitialRows \/ r.score \in hist.qualified
    /\ SumOf(hist.inserts) <= SumOf(hist.proofs)

(* the lowest of the top-3 scores of a leaderboard of at least 3 rows *)
ThirdBest(rows) == LowestOf(CHOOSE S \in Top3Sets(rows) : TRUE)

AtMost3(n) == IF n < 3 THEN n ELSE 3

(* C20: the leaderboard never gets worse: no step takes the number of rows    *)
(* below min(3, the number before), a row is removed only by the commit of a  *)
(* Register's trim and only when at least 3 rows with a score not below its   *)
(* own remain, and once 3 entries exist the lowest of the top-3 scores never  *)
(* decreases.                                                                 *)
C20_LeaderboardNeverWorse ==
    [][/\ Cardinality(top_scores') >= AtMost3(Cardinality(top_scores))
       /\ \A r \in top_scores \ top_scores' :
            /\ \E p \in Procs : pc[p] = "tx_commit" /\ pc'[p] = "reg_delete"
            /\ Cardinality({q \in top_scores' : q.score >= r.score}) >= 3
       /\ Cardinality(top_scores) >= 3
            => ThirdBest(top_scores') >= ThirdBest(top_scores)]_vars

====
